---------------------------- MODULE Spec2Model ----------------------------
(***************************************************************************)
(* A model of the pubsubclient package (client.go): a thin JSON-over-HTTP  *)
(* client.  Callers invoke the client's methods; each method validates its *)
(* arguments, builds a request, hands it to the HTTP client and turns the  *)
(* response into a result.  A caller blocks between handing a request to   *)
(* the HTTP client and getting its answer, so each method is modelled as   *)
(* one action per segment between two HTTP exchanges.                      *)
(*                                                                         *)
(* Strings are sequences of one-character strings, so that lengths, URL    *)
(* escapes and header canonicalisation are computed, not assumed.          *)
(* An error is a record [msg, codes]: the message's text fragments in      *)
(* order and the numbers formatted into it (the %d arguments) in order.    *)
(***************************************************************************)
EXTENDS Integers, Sequences, FiniteSets, TLC

(* ------------------------------ bounds -------------------------------- *)

\* Callers that use one client instance concurrently (SpecServer).
NumCallers ==
    2

\* Longest topic list / message list a response body carries.
MaxListLen ==
    2

(* ------------------------- program constants -------------------------- *)

StatusOK ==
    200

StatusCreated ==
    201

MinTopicLen ==
    1

MaxTopicLen ==
    255

(* ------------------------------ strings ------------------------------- *)

Rep(c, n) == [i \in 1..n |-> c]

Range(s) == {s[i] : i \in DOMAIN s}

EmptyStr == <<>>

NameA == <<"a">>

NameB == <<"b">>

\* A name holding a '%' that starts no valid escape, and one holding a valid one.
NamePct == <<"%">>

NameEsc == <<"%", "a", "b">>

NameMax == Rep("a", MaxTopicLen)

NameOver == Rep("a", MaxTopicLen + 1)

\* The topic and subscription names callers pass.
TopicArgs == {EmptyStr, NameA, NameB, NamePct, NameEsc, NameMax, NameOver}

\* The topic names a server's list answer may hold.
ListNames == {NameA, NameB, NameMax}

SeqsUpTo(S, n) == UNION {[1..k -> S] : k \in 0..n}

DataArgs == {<<"h", "i">>, EmptyStr}

(* ------------------------------- errors ------------------------------- *)

NilErr == [msg |-> <<>>, codes |-> <<>>]

\* fmt.Errorf(text + " %d", code...) and fmt.Errorf(text + " %v", err)
Errorf(text, codes) == [msg |-> <<text>>, codes |-> codes]

Wrap(text, err) == [msg |-> <<text>> \o err.msg, codes |-> err.codes]

\* Errors made outside this package: by the HTTP client, io.ReadAll, encoding/json.
TransportErr == [msg |-> <<"http: transport failure">>, codes |-> <<>>]

URLErr == [msg |-> <<"parse: invalid URL escape">>, codes |-> <<>>]

ReadErr == [msg |-> <<"unexpected EOF">>, codes |-> <<>>]

DecodeErr == [msg |-> <<"json: cannot unmarshal">>, codes |-> <<>>]

(* ----------------------------- validation ----------------------------- *)

\* validation.Required: the value is not empty.
Required(v) ==
    IF Len(v) = 0 THEN Errorf("cannot be blank", <<>>) ELSE NilErr

\* validation.Length(min, max): an empty value is skipped, any other must have
\* min <= len(v) <= max.
LengthRule(min, max, v) ==
    IF Len(v) = 0 \/ (Len(v) >= min /\ Len(v) <= max)
    THEN NilErr
    ELSE Errorf("the length must be between", <<min, max>>)

\* validation.Validate(topic, validation.Required, validation.Length(1, 255)):
\* the rules in order, the first error wins.
ValidateSkipsRequired(topic) ==
    LengthRule(MinTopicLen, MaxTopicLen, topic)

Validate(topic) ==
    IF Required(topic) # NilErr
    THEN Required(topic)
    ELSE LengthRule(MinTopicLen, MaxTopicLen, topic)

(* -------------------------------- URLs -------------------------------- *)

IsHex(c) == c \in {"a", "b"}

\* url.Parse, as http.NewRequest calls it, on base + "/.../" + name + "/...":
\* a '%' must be followed by two hex digits.  The text after the name starts
\* with '/', so an escape cannot run past the name's end.
URLParseOK(name) ==
    \A i \in 1..Len(name) :
        name[i] = "%" =>
            /\ i + 2 <= Len(name)
            /\ IsHex(name[i + 1])
            /\ IsHex(name[i + 2])

(* ------------------------------ headers ------------------------------- *)

Lowers == <<"a", "b", "c", "d", "e", "f", "g", "h", "i", "j", "k", "l", "m",
            "n", "o", "p", "q", "r", "s", "t", "u", "v", "w", "x", "y", "z">>

Uppers == <<"A", "B", "C", "D", "E", "F", "G", "H", "I", "J", "K", "L", "M",
            "N", "O", "P", "Q", "R", "S", "T", "U", "V", "W", "X", "Y", "Z">>

ToUpper(c) ==
    IF \E i \in DOMAIN Lowers : Lowers[i] = c
    THEN Uppers[CHOOSE i \in DOMAIN Lowers : Lowers[i] = c]
    ELSE c

ToLower(c) ==
    IF \E i \in DOMAIN Uppers : Uppers[i] = c
    THEN Lowers[CHOOSE i \in DOMAIN Uppers : Uppers[i] = c]
    ELSE c

\* textproto.CanonicalMIMEHeaderKey, which Header.Set applies to the key: the
\* first letter and every letter after a hyphen in upper case, the rest in lower.
CanonicalKey(k) ==
    [i \in DOMAIN k |->
        IF i = 1 \/ k[i - 1] = "-" THEN ToUpper(k[i]) ELSE ToLower(k[i])]

NoHeaders == << >>

\* http.Header.Set(key, value): the canonical key now holds value alone.
HeaderSet(h, key, value) ==
    [x \in DOMAIN h \cup {CanonicalKey(key)} |->
        IF x = CanonicalKey(key) THEN value ELSE h[x]]

\* for key, value := range headers { req.Header.Set(key, value) }, the map
\* visited in the order `order`.
SetHeadersStopsAfterFirst(h, headers, order) ==
    IF order = <<>>
    THEN h
    ELSE HeaderSet(h, order[1], headers[order[1]])

RECURSIVE SetHeaders(_, _, _)
SetHeaders(h, headers, order) ==
    IF order = <<>>
    THEN h
    ELSE SetHeaders(HeaderSet(h, order[1], headers[order[1]]), headers, Tail(order))

\* The orders in which a range over a map with key set S may visit it.
Orders(S) == {o \in [1..Cardinality(S) -> S] : Range(o) = S}

KeyLow == <<"x", "-", "a">>

KeyUp == <<"X", "-", "A">>

KeyOther == <<"x", "-", "b">>

ContentTypeKey == <<"C", "o", "n", "t", "e", "n", "t", "-", "T", "y", "p", "e">>

\* The header maps callers pass to PublishMessage: nil, one key, two keys that
\* differ only in case (with different and with equal values), two unrelated keys.
HeaderArgs ==
    { NoHeaders,
      (KeyLow :> "v1"),
      (KeyLow :> "v1") @@ (KeyUp :> "v2"),
      (KeyLow :> "v1") @@ (KeyUp :> "v1"),
      (KeyUp :> "v1") @@ (KeyOther :> "v2") }

(* -------------------------------- JSON --------------------------------- *)

\* json.Marshal of a Topic, a Subscription and a Message (the json tags).
MarshalTopic(topic) == [name |-> topic.Name, type |-> topic.Type]

MarshalSubscription(sub) == [name |-> sub.Name, type |-> sub.Type]

MarshalMessage(message) == [data |-> message.Data]

NoBody == [none |-> TRUE]

\* A response body: `form` says whether its bytes are one JSON value ("value"),
\* a JSON value followed by other text ("trailing") or no JSON at all
\* ("garbage"); `field` names the one member the object holds ("none" for {}),
\* `typed` whether that member has the JSON type the Go field needs, and `val`
\* its value.
Body(form, field, typed, val) ==
    [form |-> form, field |-> field, typed |-> typed, val |-> val]

GarbageBody == Body("garbage", "none", TRUE, <<>>)

EmptyObjBody == Body("value", "none", TRUE, <<>>)

TrailingBody == Body("trailing", "none", TRUE, <<>>)

\* json.Unmarshal(body, &v) where v's only field has tag `field`: the bytes must
\* be exactly one JSON value; a member of another name is ignored; the member
\* must have the field's type.  zero is the field's zero value.
UnmarshalIgnoresForm(body, field, zero) ==
    IF body.field = field /\ ~body.typed
    THEN [val |-> zero, err |-> DecodeErr]
    ELSE [val |-> IF body.field = field THEN body.val ELSE zero, err |-> NilErr]

Unmarshal(body, field, zero) ==
    IF body.form # "value" \/ (body.field = field /\ ~body.typed)
    THEN [val |-> zero, err |-> DecodeErr]
    ELSE [val |-> IF body.field = field THEN body.val ELSE zero, err |-> NilErr]

\* json.NewDecoder(resp.Body).Decode(&v): reads the first JSON value of the
\* stream and leaves what follows unread; a failed read is the decoder's error.
Decode(readOK, body, field, zero) ==
    IF ~readOK
    THEN [val |-> zero, err |-> ReadErr]
    ELSE IF body.form = "garbage" \/ (body.field = field /\ ~body.typed)
    THEN [val |-> zero, err |-> DecodeErr]
    ELSE [val |-> IF body.field = field THEN body.val ELSE zero, err |-> NilErr]

NilMessage == [nil |-> TRUE]

\* The Message of a decoded PullResponse; without a "message" member it is the
\* zero Message.
MessageOf(data) == [Data |-> data]

(* ----------------------- requests and responses ------------------------ *)

\* A request handed to the HTTP client: the URL is base + the route's path
\* around `name` (empty for /topics).
Request(method, route, name, body, headers) ==
    [method |-> method, route |-> route, name |-> name, body |-> body,
     headers |-> headers]

\* http.Client.Post(url, "application/json", body) and http.Client.Get(url)
PostRequest(route, name, body) ==
    Request("POST", route, name, body,
            HeaderSet(NoHeaders, ContentTypeKey, "application/json"))

GetRequest(route, name) == Request("GET", route, name, NoBody, NoHeaders)

\* What the HTTP client hands back: an error, or a response with its status
\* code and a body that io.ReadAll / the decoder may fail to read.
ErrResponse(err) ==
    [kind |-> "err", err |-> err, status |-> 0, readOK |-> FALSE,
     body |-> GarbageBody]

Response(status, readOK, body) ==
    [kind |-> "resp", err |-> NilErr, status |-> status, readOK |-> readOK,
     body |-> body]

Statuses == {StatusOK, StatusCreated, 404}

ListBodies ==
    {GarbageBody, EmptyObjBody, TrailingBody, Body("value", "topics", FALSE, <<>>)}
        \cup {Body("value", "topics", TRUE, l) : l \in SeqsUpTo(ListNames, MaxListLen)}

PullBodies ==
    {GarbageBody, EmptyObjBody, TrailingBody, Body("value", "message", FALSE, <<>>)}
        \cup {Body("value", "message", TRUE, d) : d \in DataArgs}

MessagesBodies ==
    {GarbageBody, EmptyObjBody, TrailingBody, Body("value", "messages", FALSE, <<>>)}
        \cup {Body("value", "messages", TRUE, l) : l \in SeqsUpTo(DataArgs, MaxListLen)}

BodiesFor(req) ==
    CASE req.method = "POST" -> {GarbageBody}
      [] req.route = "topics" -> ListBodies
      [] req.route = "pull" -> PullBodies
      [] OTHER -> MessagesBodies

\* Every answer an arbitrary server and network may give to req.
ResponsesFor(req) ==
    {ErrResponse(TransportErr)}
        \cup {Response(st, TRUE, b) : st \in Statuses, b \in BodiesFor(req)}
        \cup {Response(st, FALSE, GarbageBody) : st \in Statuses}

(* ------------------- what each method makes of an answer -------------- *)

Result(val, err) == [val |-> val, err |-> err]

\* CreateTopic, after cli.HttpClient.Post returns.
CreateTopicAcceptsAny2xx(resp) ==
    IF resp.kind = "err"
    THEN resp.err
    ELSE IF resp.status \notin {StatusOK, StatusCreated}
    THEN Errorf("error creating topic: expected status code # got #",
                <<StatusCreated, resp.status>>)
    ELSE NilErr

CreateTopicReturn(resp) ==
    IF resp.kind = "err"
    THEN resp.err
    ELSE IF resp.status # StatusCreated
    THEN Errorf("error creating topic: expected status code # got #",
                <<StatusCreated, resp.status>>)
    ELSE NilErr

\* CreateSubscription, after cli.HttpClient.Post returns.
CreateSubscriptionNoStatusCheck(resp) ==
    IF resp.kind = "err" THEN resp.err ELSE NilErr

CreateSubscriptionReturn(resp) ==
    IF resp.kind = "err"
    THEN resp.err
    ELSE IF resp.status # StatusCreated
    THEN Errorf("error creating subscription: expected status code # got #",
                <<StatusCreated, resp.status>>)
    ELSE NilErr

\* PublishMessage, after cli.HttpClient.Do / Post returns.
PublishMessageReturn(resp) ==
    IF resp.kind = "err"
    THEN resp.err
    ELSE IF resp.status # StatusCreated
    THEN Errorf("error publishing message: expected status code # got #",
                <<StatusCreated, resp.status>>)
    ELSE NilErr

\* PullMessage, after cli.HttpClient.Get returns: read, unmarshal, no look at
\* the status code.
PullMessageChecksStatus(resp) ==
    IF resp.kind = "err"
    THEN Result(NilMessage, resp.err)
    ELSE IF ~resp.readOK
    THEN Result(NilMessage, ReadErr)
    ELSE IF resp.status # StatusOK
    THEN Result(NilMessage, Errorf("failed to pull message, status code: #",
                                   <<resp.status>>))
    ELSE IF Unmarshal(resp.body, "message", EmptyStr).err # NilErr
    THEN Result(NilMessage, Unmarshal(resp.body, "message", EmptyStr).err)
    ELSE Result(MessageOf(Unmarshal(resp.body, "message", EmptyStr).val), NilErr)

PullMessageReturn(resp) ==
    IF resp.kind = "err"
    THEN Result(NilMessage, resp.err)
    ELSE IF ~resp.readOK
    THEN Result(NilMessage, ReadErr)
    ELSE IF Unmarshal(resp.body, "message", EmptyStr).err # NilErr
    THEN Result(NilMessage, Unmarshal(resp.body, "message", EmptyStr).err)
    ELSE Result(MessageOf(Unmarshal(resp.body, "message", EmptyStr).val), NilErr)

\* ListTopics, after cli.HttpClient.Get returns: read, then the status check,
\* then unmarshal.
ListTopicsReturn(resp) ==
    IF resp.kind = "err"
    THEN Result(<<>>, resp.err)
    ELSE IF ~resp.readOK
    THEN Result(<<>>, ReadErr)
    ELSE IF resp.status # StatusOK
    THEN Result(<<>>, Errorf("failed to list topics, status code: #",
                             <<resp.status>>))
    ELSE IF Unmarshal(resp.body, "topics", <<>>).err # NilErr
    THEN Result(<<>>, Unmarshal(resp.body, "topics", <<>>).err)
    ELSE Result(Unmarshal(resp.body, "topics", <<>>).val, NilErr)

\* TopicExists, after cli.ListTopics() returns lt: the scan of the names.
TopicExistsChecksFirstOnly(topic, lt) ==
    IF lt.err # NilErr
    THEN Result(FALSE, Wrap("failed to list topics:", lt.err))
    ELSE Result(Len(lt.val) > 0 /\ lt.val[1] = topic, NilErr)

TopicExistsReturn(topic, lt) ==
    IF lt.err # NilErr
    THEN Result(FALSE, Wrap("failed to list topics:", lt.err))
    ELSE Result(\E i \in 1..Len(lt.val) : lt.val[i] = topic, NilErr)

\* EnsureTopicExists, after cli.TopicExists(topic) returns te without an error:
\* whether CreateTopic is called.
EnsureCreatesWhenExists(te) == te.val

EnsureCreates(te) == ~te.val

\* EnsureTopicExists, after cli.TopicExists(topic) returns te with an error.
EnsureSwallowsListError(te) == NilErr

EnsureListError(te) == te.err

\* EnsureTopicExists, after cli.CreateTopic returns err.
EnsureIgnoresCreateError(err) == NilErr

EnsureReturn(err) ==
    IF err # NilErr THEN Wrap("failed to create topic:", err) ELSE NilErr

\* GetMessages, after cli.HttpClient.Do returns: the status check, then decode.
GetMessagesReturn(resp) ==
    IF resp.kind = "err"
    THEN Result(<<>>, Wrap("failed to send request:", resp.err))
    ELSE IF resp.status # StatusOK
    THEN Result(<<>>, Errorf("failed to get messages, status code: #",
                             <<resp.status>>))
    ELSE IF Decode(resp.readOK, resp.body, "messages", <<>>).err # NilErr
    THEN Result(<<>>, Wrap("failed to decode response:",
                           Decode(resp.readOK, resp.body, "messages", <<>>).err))
    ELSE Result([i \in DOMAIN Decode(resp.readOK, resp.body, "messages", <<>>).val |->
                    MessageOf(Decode(resp.readOK, resp.body, "messages", <<>>).val[i])],
                NilErr)

(* -------------------------------- state -------------------------------- *)

VARIABLES
    variant,    \* which of the file's two Client types the instance is: 1 or 2
    pc,         \* per caller: "idle", "wait" (inside an HTTP exchange), "done"
    call,       \* per caller: the method called and its arguments
    sent,       \* per caller: the requests this call handed to the HTTP client
    got,        \* per caller: the answers the HTTP client gave to them
    result,     \* per caller: what the call returned
    srvTopics   \* the topics the server holds (SpecServer)

vars == <<variant, pc, call, sent, got, result, srvTopics>>

Procs == 1..NumCallers

ZeroObj == [Name |-> EmptyStr, Type |-> EmptyStr]

Call(op, name, obj, data, headers) ==
    [op |-> op, name |-> name, obj |-> obj, data |-> data, headers |-> headers]

NoCall == Call("none", EmptyStr, ZeroObj, EmptyStr, NoHeaders)

NoResult == Result(<<>>, NilErr)

\* The Topic and Subscription values callers pass.
ObjArgs == {[Name |-> n, Type |-> t] : n \in {EmptyStr, NameA}, t \in {EmptyStr, NameB}}

\* NewClient / New: the client holds its base URL and HTTP client and nothing
\* else; no call is in progress.
Init ==
    /\ variant \in {1, 2}
    /\ pc = [p \in Procs |-> "idle"]
    /\ call = [p \in Procs |-> NoCall]
    /\ sent = [p \in Procs |-> <<>>]
    /\ got = [p \in Procs |-> <<>>]
    /\ result = [p \in Procs |-> NoResult]
    /\ srvTopics = {}

Last(s) == s[Len(s)]

\* The caller is inside an exchange whose answer has arrived.
Answered(p, op, n) ==
    /\ pc[p] = "wait"
    /\ call[p].op = op
    /\ Len(sent[p]) = n
    /\ Len(got[p]) = n

\* The call starts by handing req to the HTTP client.
Start(p, c, req) ==
    /\ call' = [call EXCEPT ![p] = c]
    /\ sent' = [sent EXCEPT ![p] = <<req>>]
    /\ pc' = [pc EXCEPT ![p] = "wait"]
    /\ UNCHANGED <<variant, got, result, srvTopics>>

\* The call returns res without having handed anything to the HTTP client.
Refuse(p, c, res) ==
    /\ call' = [call EXCEPT ![p] = c]
    /\ result' = [result EXCEPT ![p] = res]
    /\ pc' = [pc EXCEPT ![p] = "done"]
    /\ UNCHANGED <<variant, sent, got, srvTopics>>

\* The call returns res.
Finish(p, res) ==
    /\ result' = [result EXCEPT ![p] = res]
    /\ pc' = [pc EXCEPT ![p] = "done"]
    /\ UNCHANGED <<variant, call, sent, got, srvTopics>>

(* ------------------------------- methods ------------------------------- *)

CreateTopicCall(p) ==
    /\ pc[p] = "idle"
    /\ \E topic \in ObjArgs :
        Start(p, Call("CreateTopic", EmptyStr, topic, EmptyStr, NoHeaders),
              PostRequest("topics", EmptyStr, MarshalTopic(topic)))

CreateTopicRecv(p) ==
    /\ Answered(p, "CreateTopic", 1)
    /\ Finish(p, Result(<<>>, CreateTopicReturn(got[p][1])))

CreateSubscriptionCall(p) ==
    /\ pc[p] = "idle"
    /\ \E topicName \in TopicArgs, subscription \in ObjArgs :
        Start(p, Call("CreateSubscription", topicName, subscription, EmptyStr, NoHeaders),
              PostRequest("subscriptions", topicName, MarshalSubscription(subscription)))

CreateSubscriptionRecv(p) ==
    /\ Answered(p, "CreateSubscription", 1)
    /\ Finish(p, Result(<<>>, CreateSubscriptionReturn(got[p][1])))

\* The first Client type: http.NewRequest, the caller's headers set one by one
\* in the map's iteration order, then HttpClient.Do.  The second: httpClient.Post.
PublishMessageCall(p) ==
    /\ pc[p] = "idle"
    /\ \E topicName \in TopicArgs, data \in DataArgs :
        \/ /\ variant = 1
           /\ \E headers \in HeaderArgs :
                LET c == Call("PublishMessage", topicName, ZeroObj, data, headers)
                    body == MarshalMessage(MessageOf(data))
                IN  IF ~URLParseOK(topicName)
                    THEN Refuse(p, c, Result(<<>>, URLErr))
                    ELSE \E order \in Orders(DOMAIN headers) :
                            Start(p, c, Request("POST", "publish", topicName, body,
                                                SetHeaders(NoHeaders, headers, order)))
        \/ /\ variant = 2
           /\ Start(p, Call("PublishMessage", topicName, ZeroObj, data, NoHeaders),
                    PostRequest("publish", topicName, MarshalMessage(MessageOf(data))))

PublishMessageRecv(p) ==
    /\ Answered(p, "PublishMessage", 1)
    /\ Finish(p, Result(<<>>, PublishMessageReturn(got[p][1])))

PullMessageCall(p) ==
    /\ pc[p] = "idle"
    /\ \E subscriptionName \in TopicArgs :
        Start(p, Call("PullMessage", subscriptionName, ZeroObj, EmptyStr, NoHeaders),
              GetRequest("pull", subscriptionName))

PullMessageRecv(p) ==
    /\ Answered(p, "PullMessage", 1)
    /\ Finish(p, PullMessageReturn(got[p][1]))

ListTopicsCall(p) ==
    /\ pc[p] = "idle"
    /\ Start(p, Call("ListTopics", EmptyStr, ZeroObj, EmptyStr, NoHeaders),
             GetRequest("topics", EmptyStr))

ListTopicsRecv(p) ==
    /\ Answered(p, "ListTopics", 1)
    /\ Finish(p, ListTopicsReturn(got[p][1]))

\* TopicExists up to its call of ListTopics.
TopicExistsEnter(p, c, topic) ==
    IF Validate(topic) # NilErr
    THEN Refuse(p, c, Result(FALSE, Wrap("invalid topic:", Validate(topic))))
    ELSE Start(p, c, GetRequest("topics", EmptyStr))

TopicExistsCall(p) ==
    /\ pc[p] = "idle"
    /\ \E topic \in TopicArgs :
        TopicExistsEnter(p, Call("TopicExists", topic, ZeroObj, EmptyStr, NoHeaders), topic)

TopicExistsRecv(p) ==
    /\ Answered(p, "TopicExists", 1)
    /\ Finish(p, TopicExistsReturn(call[p].name, ListTopicsReturn(got[p][1])))

\* EnsureTopicExists validates, then calls TopicExists, which validates again; a
\* TopicExists error is returned as it is.
EnsureTopicExistsOn(p, topics) ==
    /\ pc[p] = "idle"
    /\ \E topic \in topics :
        LET c == Call("EnsureTopicExists", topic, ZeroObj, EmptyStr, NoHeaders)
        IN  IF Validate(topic) # NilErr
            THEN Refuse(p, c, Result(<<>>, Wrap("invalid topic:", Validate(topic))))
            ELSE TopicExistsEnter(p, c, topic)

EnsureTopicExistsCall(p) == EnsureTopicExistsOn(p, TopicArgs)

\* TopicExists has its answer: return its error, return nil, or go on to
\* CreateTopic(Topic{Name: topic}).
EnsureTopicExistsListRecv(p) ==
    /\ Answered(p, "EnsureTopicExists", 1)
    /\ LET te == TopicExistsReturn(call[p].name, ListTopicsReturn(got[p][1]))
       IN  IF te.err # NilErr
           THEN Finish(p, Result(<<>>, EnsureListError(te)))
           ELSE IF EnsureCreates(te)
           THEN /\ sent' = [sent EXCEPT ![p] = Append(@,
                        PostRequest("topics", EmptyStr,
                            MarshalTopic([Name |-> call[p].name, Type |-> EmptyStr])))]
                /\ UNCHANGED <<variant, pc, call, got, result, srvTopics>>
           ELSE Finish(p, Result(<<>>, NilErr))

EnsureTopicExistsCreateRecv(p) ==
    /\ Answered(p, "EnsureTopicExists", 2)
    /\ Finish(p, Result(<<>>, EnsureReturn(CreateTopicReturn(got[p][2]))))

GetMessagesCall(p) ==
    /\ pc[p] = "idle"
    /\ \E topic \in TopicArgs :
        LET c == Call("GetMessages", topic, ZeroObj, EmptyStr, NoHeaders)
        IN  IF Validate(topic) # NilErr
            THEN Refuse(p, c, Result(<<>>, Wrap("invalid topic:", Validate(topic))))
            ELSE IF ~URLParseOK(topic)
            THEN Refuse(p, c, Result(<<>>, Wrap("failed to create request:", URLErr)))
            ELSE Start(p, c, Request("GET", "messages", topic, NoBody,
                        HeaderSet(NoHeaders, ContentTypeKey, "application/json")))

GetMessagesRecv(p) ==
    /\ Answered(p, "GetMessages", 1)
    /\ Finish(p, GetMessagesReturn(got[p][1]))

\* The caller has its result; it may call again.
Return(p) ==
    /\ pc[p] = "done"
    /\ pc' = [pc EXCEPT ![p] = "idle"]
    /\ call' = [call EXCEPT ![p] = NoCall]
    /\ sent' = [sent EXCEPT ![p] = <<>>]
    /\ got' = [got EXCEPT ![p] = <<>>]
    /\ result' = [result EXCEPT ![p] = NoResult]
    /\ UNCHANGED <<variant, srvTopics>>

(* ------------------------- the HTTP client's answer -------------------- *)

Pending(p) == pc[p] = "wait" /\ Len(got[p]) < Len(sent[p])

Deliver(p, resp) ==
    /\ got' = [got EXCEPT ![p] = Append(@, resp)]
    /\ UNCHANGED <<variant, pc, call, sent, result>>

\* HttpClient.Post / Get / Do returns.  Post and Get build the request
\* themselves and return the URL's parse error without sending; otherwise
\* the network and the server may answer anything.
Respond(p) ==
    /\ Pending(p)
    /\ IF ~URLParseOK(Last(sent[p]).name)
       THEN Deliver(p, ErrResponse(URLErr))
       ELSE \E resp \in ResponsesFor(Last(sent[p])) : Deliver(p, resp)
    /\ UNCHANGED srvTopics

Methods(p) ==
    \/ CreateTopicCall(p) \/ CreateTopicRecv(p)
    \/ CreateSubscriptionCall(p) \/ CreateSubscriptionRecv(p)
    \/ PublishMessageCall(p) \/ PublishMessageRecv(p)
    \/ PullMessageCall(p) \/ PullMessageRecv(p)
    \/ ListTopicsCall(p) \/ ListTopicsRecv(p)
    \/ TopicExistsCall(p) \/ TopicExistsRecv(p)
    \/ EnsureTopicExistsCall(p) \/ EnsureTopicExistsListRecv(p)
    \/ EnsureTopicExistsCreateRecv(p)
    \/ GetMessagesCall(p) \/ GetMessagesRecv(p)
    \/ Return(p)

\* One caller, every method, any server.
Next ==
    \/ Methods(1)
    \/ Respond(1)

Spec == Init /\ [][Next]_vars

(* ------------- concurrent callers and a well-behaved server ------------ *)

\* The topics concurrent callers ask for.
ServerTopicArgs == {EmptyStr, NameA, NameB}

EnsureTopicExistsConc(p) == EnsureTopicExistsOn(p, ServerTopicArgs)

\* The server answers GET /topics with 200 and the topics it holds, in any order.
ServerList(p) ==
    /\ Pending(p)
    /\ Last(sent[p]).method = "GET"
    /\ Last(sent[p]).route = "topics"
    /\ \E order \in Orders(srvTopics) :
        Deliver(p, Response(StatusOK, TRUE, Body("value", "topics", TRUE, order)))
    /\ UNCHANGED srvTopics

\* The server answers POST /topics with 201 when it adds the topic, and with
\* 409 when it holds it already.
ServerCreate(p) ==
    /\ Pending(p)
    /\ Last(sent[p]).method = "POST"
    /\ Last(sent[p]).route = "topics"
    /\ LET name == Last(sent[p]).body.name
       IN  IF name \in srvTopics
           THEN /\ Deliver(p, Response(409, TRUE, GarbageBody))
                /\ UNCHANGED srvTopics
           ELSE /\ srvTopics' = srvTopics \cup {name}
                /\ Deliver(p, Response(StatusCreated, TRUE, GarbageBody))

\* The server refuses a create, adding nothing.
ServerRefuse(p) ==
    /\ Pending(p)
    /\ Last(sent[p]).method = "POST"
    /\ Last(sent[p]).route = "topics"
    /\ Deliver(p, Response(500, TRUE, GarbageBody))
    /\ UNCHANGED srvTopics

\* The request does not reach the server.
NetFail(p) ==
    /\ Pending(p)
    /\ Deliver(p, ErrResponse(TransportErr))
    /\ UNCHANGED srvTopics

NextServer ==
    \E p \in Procs :
        \/ EnsureTopicExistsConc(p)
        \/ EnsureTopicExistsListRecv(p)
        \/ EnsureTopicExistsCreateRecv(p)
        \/ Return(p)
        \/ ServerList(p)
        \/ ServerCreate(p)
        \/ ServerRefuse(p)
        \/ NetFail(p)

SpecServer == Init /\ [][NextServer]_vars

(* ------------------------------- claims -------------------------------- *)

Done(p, op) == pc[p] = "done" /\ call[p].op = op

LenOK(name) == Len(name) >= 1 /\ Len(name) <= 255

IsValidationError(err) == Len(err.msg) >= 1 /\ err.msg[1] = "invalid topic:"

ListRequest == GetRequest("topics", EmptyStr)

\* The answer is a 200 whose body is read and decodes as a topic list.
IsTopicList(r) ==
    /\ r.kind = "resp"
    /\ r.status = 200
    /\ r.readOK
    /\ r.body.form = "value"
    /\ r.body.field = "topics" => r.body.typed

TopicsIn(r) == IF r.body.field = "topics" THEN Range(r.body.val) ELSE {}

ValidatingOps == {"TopicExists", "EnsureTopicExists", "GetMessages"}

\* C1 as stated: a topic name of length 0 or over 255 makes TopicExists,
\* EnsureTopicExists and GetMessages return a validation error with no request
\* sent, and a name of length 1..255 passes validation and the first request
\* is sent.
C1Original ==
    \A p \in Procs :
        call[p].op \in ValidatingOps =>
            IF LenOK(call[p].name)
            THEN ~IsValidationError(result[p].err) /\ Len(sent[p]) >= 1
            ELSE /\ pc[p] = "done"
                 /\ sent[p] = <<>>
                 /\ IsValidationError(result[p].err)

\* C1 as amended: a topic name of length 0 or over 255 makes the three methods
\* return a validation error with no request sent; a name of length 1..255
\* passes validation, after which TopicExists and EnsureTopicExists send the
\* list request, and GetMessages sends its request unless http.NewRequest
\* rejects the URL built from the name, when it returns that error and sends
\* nothing.
C1Theorem ==
    \A p \in Procs :
        call[p].op \in ValidatingOps =>
            IF LenOK(call[p].name)
            THEN /\ ~IsValidationError(result[p].err)
                 /\ call[p].op # "GetMessages" =>
                        Len(sent[p]) >= 1 /\ sent[p][1] = ListRequest
                 /\ call[p].op = "GetMessages" =>
                        IF URLParseOK(call[p].name)
                        THEN /\ Len(sent[p]) = 1
                             /\ sent[p][1].route = "messages"
                             /\ sent[p][1].name = call[p].name
                        ELSE /\ sent[p] = <<>>
                             /\ pc[p] = "done"
                             /\ result[p].err = Wrap("failed to create request:", URLErr)
            ELSE /\ pc[p] = "done"
                 /\ sent[p] = <<>>
                 /\ IsValidationError(result[p].err)

C1Witness ==
    /\ Done(1, "EnsureTopicExists")
    /\ Len(call[1].name) = 256
    /\ sent[1] = <<>>
    /\ IsValidationError(result[1].err)

\* C2: CreateTopic returns nil exactly when the server answers 201; any other
\* status gives an error that names the status; a transport failure gives the
\* transport's error; in both Client types.
C2Theorem ==
    \A p \in Procs :
        Done(p, "CreateTopic") =>
            LET r == got[p][1]
            IN  /\ result[p].err = NilErr <=> (r.kind = "resp" /\ r.status = 201)
                /\ (r.kind = "resp" /\ r.status # 201) =>
                        r.status \in Range(result[p].err.codes)
                /\ r.kind = "err" => result[p].err = r.err

C2Witness ==
    /\ variant = 2
    /\ Done(1, "CreateTopic")
    /\ got[1][1].kind = "resp"
    /\ got[1][1].status = 200
    /\ 200 \in Range(result[1].err.codes)

\* C3: EnsureTopicExists(t) with a valid t whose list request is answered 200
\* with a list containing t sends that one GET and nothing else, and returns
\* nil.
C3Theorem ==
    \A p \in Procs :
        ( /\ call[p].op = "EnsureTopicExists"
          /\ LenOK(call[p].name)
          /\ Len(got[p]) >= 1
          /\ IsTopicList(got[p][1])
          /\ call[p].name \in TopicsIn(got[p][1]) ) =>
            /\ sent[p] = <<ListRequest>>
            /\ pc[p] = "done" => result[p].err = NilErr

C3Witness ==
    /\ Done(1, "EnsureTopicExists")
    /\ Len(got[1]) = 1
    /\ got[1][1].body.field = "topics"
    /\ got[1][1].body.val = <<NameB, NameA>>
    /\ call[1].name = NameA
    /\ result[1].err = NilErr

\* C4: EnsureTopicExists(t) with a valid t whose list request is answered 200
\* with a list that lacks t sends the list request and then exactly one POST
\* /topics with body {name: t, type: ""}; it returns nil exactly when that
\* create is answered 201.
C4Theorem ==
    \A p \in Procs :
        ( /\ call[p].op = "EnsureTopicExists"
          /\ LenOK(call[p].name)
          /\ Len(got[p]) >= 1
          /\ IsTopicList(got[p][1])
          /\ call[p].name \notin TopicsIn(got[p][1]) ) =>
            /\ Len(sent[p]) <= 2
            /\ sent[p][1] = ListRequest
            /\ Len(sent[p]) = 2 =>
                /\ sent[p][2].method = "POST"
                /\ sent[p][2].route = "topics"
                /\ sent[p][2].body = [name |-> call[p].name, type |-> EmptyStr]
            /\ pc[p] = "done" =>
                /\ Len(sent[p]) = 2
                /\ Len(got[p]) = 2
                /\ result[p].err = NilErr <=>
                        (got[p][2].kind = "resp" /\ got[p][2].status = 201)

C4Witness ==
    /\ Done(1, "EnsureTopicExists")
    /\ Len(sent[1]) = 2
    /\ IsTopicList(got[1][1])
    /\ got[1][1].body.val = <<NameB>>
    /\ call[1].name = NameA
    /\ got[1][2].kind = "resp"
    /\ got[1][2].status = 200
    /\ result[1].err # NilErr

\* The request's header map holds value under a name that is key up to
\* letter case (HTTP header names are case-insensitive).
Carries(h, key, value) ==
    \E x \in DOMAIN h : CanonicalKey(x) = CanonicalKey(key) /\ h[x] = value

\* C5 as stated: the request PublishMessage sends carries, for every key k of
\* the supplied map, a header k with value headers[k], also when two supplied
\* keys differ only in letter case.
C5Original ==
    \A p \in Procs :
        (call[p].op = "PublishMessage" /\ variant = 1 /\ Len(sent[p]) = 1) =>
            \A k \in DOMAIN call[p].headers :
                Carries(sent[p][1].headers, k, call[p].headers[k])

\* C5 as amended: the request PublishMessage sends holds, for every key k of the
\* supplied map, exactly one header under k's canonical name, and no others;
\* its value is the value supplied for k or for another supplied key with the
\* same canonical name, and it is headers[k] when no other supplied key with a
\* different value shares k's canonical name.
C5Theorem ==
    \A p \in Procs :
        (call[p].op = "PublishMessage" /\ variant = 1 /\ Len(sent[p]) = 1) =>
            LET h == sent[p][1].headers
                headers == call[p].headers
                Same(k) == {j \in DOMAIN headers : CanonicalKey(j) = CanonicalKey(k)}
            IN  /\ DOMAIN h = {CanonicalKey(k) : k \in DOMAIN headers}
                /\ \A k \in DOMAIN headers :
                    /\ h[CanonicalKey(k)] \in {headers[j] : j \in Same(k)}
                    /\ (\A j \in Same(k) : headers[j] = headers[k]) =>
                            Carries(h, k, headers[k])

C5Witness ==
    /\ variant = 1
    /\ call[1].op = "PublishMessage"
    /\ Len(sent[1]) = 1
    /\ DOMAIN call[1].headers = {KeyLow, KeyUp}
    /\ call[1].headers[KeyLow] = "v1"
    /\ call[1].headers[KeyUp] = "v2"
    /\ sent[1][1].headers[KeyUp] = "v2"

\* The body's bytes are one JSON value that fits a PullResponse.
DecodesAsPull(body) ==
    body.form = "value" /\ (body.field = "message" => body.typed)

\* C6: PullMessage never looks at the status code: whatever the status, a body
\* that decodes as a PullResponse gives its Message and no error, and a body
\* that does not gives a decode error, never an error about the status.
C6Theorem ==
    \A p \in Procs :
        (Done(p, "PullMessage") /\ got[p][1].kind = "resp" /\ got[p][1].readOK) =>
            LET r == got[p][1]
            IN  IF DecodesAsPull(r.body)
                THEN /\ result[p].err = NilErr
                     /\ result[p].val =
                            [Data |-> IF r.body.field = "message"
                                      THEN r.body.val ELSE EmptyStr]
                ELSE /\ result[p].err = DecodeErr
                     /\ result[p].val = NilMessage

C6Witness ==
    /\ Done(1, "PullMessage")
    /\ got[1][1].kind = "resp"
    /\ got[1][1].status = 404
    /\ got[1][1].readOK
    /\ got[1][1].body.field = "message"
    /\ got[1][1].body.typed
    /\ result[1].err = NilErr
    /\ result[1].val = [Data |-> <<"h", "i">>]

PostOps == {"CreateTopic", "CreateSubscription", "PublishMessage"}

\* The body's bytes hold a JSON value whose member `field`, if any, has the
\* right type; Unmarshal also needs nothing to follow the value.
FitsField(body, field) == body.field = field => body.typed

\* The i-th exchange of a call of op failed: the HTTP client returned an error,
\* the status is not the one the method asks for, or the body cannot be read or
\* decoded.
Failed(op, i, r) ==
    \/ r.kind = "err"
    \/ /\ op \in PostOps \/ (op = "EnsureTopicExists" /\ i = 2)
       /\ r.status # 201
    \/ /\ op \in {"ListTopics", "TopicExists"} \/ (op = "EnsureTopicExists" /\ i = 1)
       /\ ~r.readOK \/ r.status # 200 \/ r.body.form # "value"
            \/ ~FitsField(r.body, "topics")
    \/ /\ op = "PullMessage"
       /\ ~r.readOK \/ r.body.form # "value" \/ ~FitsField(r.body, "message")
    \/ /\ op = "GetMessages"
       /\ ~r.readOK \/ r.status # 200 \/ r.body.form = "garbage"
            \/ ~FitsField(r.body, "messages")

\* The call returns before any request: the topic fails validation, or
\* http.NewRequest rejects the URL built from the name.
RefusedLocally(p) ==
    \/ call[p].op \in ValidatingOps /\ ~LenOK(call[p].name)
    \/ /\ call[p].op = "GetMessages" \/ (call[p].op = "PublishMessage" /\ variant = 1)
       /\ ~URLParseOK(call[p].name)

\* C7 as stated: every operation sends exactly one request, except
\* EnsureTopicExists, which sends one or two; after a failed request the
\* operation sends nothing more and returns an error.
C7Original ==
    \A p \in Procs :
        /\ (pc[p] = "done" /\ call[p].op # "EnsureTopicExists") => Len(sent[p]) = 1
        /\ (pc[p] = "done" /\ call[p].op = "EnsureTopicExists") => Len(sent[p]) \in {1, 2}
        /\ \A i \in 1..Len(got[p]) :
            Failed(call[p].op, i, got[p][i]) =>
                /\ Len(sent[p]) = i
                /\ pc[p] = "done" => result[p].err # NilErr

\* C7 as amended: an operation that returns has sent exactly one request, or
\* none when its topic fails validation or the request cannot be built, except
\* EnsureTopicExists, which has sent one or two (the list, then at most one
\* create) or none when its topic fails validation; every request was answered
\* once; after a failed request the operation sends nothing more and returns
\* an error.
C7Theorem ==
    \A p \in Procs :
        /\ Len(sent[p]) <= (IF call[p].op = "EnsureTopicExists" THEN 2 ELSE 1)
        /\ pc[p] = "done" =>
            /\ Len(got[p]) = Len(sent[p])
            /\ RefusedLocally(p) => Len(sent[p]) = 0 /\ result[p].err # NilErr
            /\ ~RefusedLocally(p) => Len(sent[p]) >= 1
        /\ Len(sent[p]) = 2 =>
            /\ sent[p][1] = ListRequest
            /\ sent[p][2].method = "POST"
            /\ ~Failed(call[p].op, 1, got[p][1])
        /\ \A i \in 1..Len(got[p]) :
            Failed(call[p].op, i, got[p][i]) =>
                /\ Len(sent[p]) = i
                /\ pc[p] = "done" => result[p].err # NilErr

C7Witness ==
    /\ Done(1, "EnsureTopicExists")
    /\ Len(sent[1]) = 1
    /\ Len(got[1]) = 1
    /\ got[1][1].kind = "resp"
    /\ got[1][1].status = 404
    /\ result[1].err # NilErr

\* C8: TopicExists(t) with a valid t returns (true, nil) exactly when the list
\* request is answered 200 with a list that holds t, (false, nil) when the list
\* is answered 200 without t (also with no topics member), and (false, error)
\* when ListTopics fails.
C8Theorem ==
    \A p \in Procs :
        (Done(p, "TopicExists") /\ LenOK(call[p].name)) =>
            LET r == got[p][1]
                t == call[p].name
            IN  /\ (result[p].val /\ result[p].err = NilErr) <=>
                        (IsTopicList(r) /\ t \in TopicsIn(r))
                /\ (IsTopicList(r) /\ t \notin TopicsIn(r)) =>
                        (~result[p].val /\ result[p].err = NilErr)
                /\ ~IsTopicList(r) => (~result[p].val /\ result[p].err # NilErr)

C8Witness ==
    /\ Done(1, "TopicExists")
    /\ Len(call[1].name) = 255
    /\ Len(got[1]) = 1
    /\ IsTopicList(got[1][1])
    /\ got[1][1].body.val = <<NameA, call[1].name>>
    /\ result[1].val
    /\ result[1].err = NilErr

StatusOps == PostOps \cup {"ListTopics", "GetMessages"}

Expected(op) == IF op \in PostOps THEN 201 ELSE 200

UnexpectedStatus(p) ==
    /\ pc[p] = "done"
    /\ call[p].op \in StatusOps
    /\ Len(got[p]) = 1
    /\ got[p][1].kind = "resp"
    /\ got[p][1].status # Expected(call[p].op)

\* C9 as stated: for CreateTopic, CreateSubscription, PublishMessage, ListTopics
\* and GetMessages an answer with another status than the expected one gives an
\* error naming the expected and the observed status, and no result data.
C9Original ==
    \A p \in Procs :
        UnexpectedStatus(p) =>
            /\ result[p].err # NilErr
            /\ {Expected(call[p].op), got[p][1].status} \subseteq
                    Range(result[p].err.codes)
            /\ result[p].val = <<>>

\* C9 as amended: such an answer gives an error and no result data; the error
\* of CreateTopic, CreateSubscription and PublishMessage names the expected 201
\* and the observed status; the error of GetMessages names the observed status
\* only; ListTopics reads the body first, so its error is the read error when
\* the body cannot be read and otherwise names the observed status only.
C9Theorem ==
    \A p \in Procs :
        UnexpectedStatus(p) =>
            /\ result[p].err # NilErr
            /\ result[p].val = <<>>
            /\ call[p].op \in PostOps =>
                    result[p].err.codes = <<201, got[p][1].status>>
            /\ call[p].op = "GetMessages" =>
                    result[p].err.codes = <<got[p][1].status>>
            /\ call[p].op = "ListTopics" =>
                    IF got[p][1].readOK
                    THEN result[p].err.codes = <<got[p][1].status>>
                    ELSE result[p].err = ReadErr

C9Witness ==
    /\ Done(1, "ListTopics")
    /\ Len(got[1]) = 1
    /\ got[1][1].kind = "resp"
    /\ got[1][1].status = 404
    /\ got[1][1].readOK
    /\ result[1].err.codes = <<404>>

\* What EnsureTopicExists(t) returns, from t and the answers to its own
\* requests alone.
EnsureOutcome(t, answers) ==
    IF ~LenOK(t)
    THEN Wrap("invalid topic:", Validate(t))
    ELSE IF ~IsTopicList(answers[1])
    THEN TopicExistsReturn(t, ListTopicsReturn(answers[1])).err
    ELSE IF t \in TopicsIn(answers[1])
    THEN NilErr
    ELSE IF answers[2].kind = "resp" /\ answers[2].status = 201
    THEN NilErr
    ELSE Wrap("failed to create topic:", CreateTopicReturn(answers[2]))

\* C10: with callers running EnsureTopicExists concurrently through one client
\* against a server whose topic set only grows, that lists what it holds and
\* answers 201 to a create only when it adds the topic, a call that returns nil
\* returns while the server holds its topic; and what a call returns is fixed
\* by its own argument and the answers to its own requests.
C10Theorem ==
    \A p \in Procs :
        Done(p, "EnsureTopicExists") =>
            /\ result[p].err = NilErr => call[p].name \in srvTopics
            /\ result[p].err = EnsureOutcome(call[p].name, got[p])

\* Two callers raced on one topic: both saw it missing, one created it and the
\* other's create was answered 409.
C10Witness ==
    /\ Done(1, "EnsureTopicExists")
    /\ Done(2, "EnsureTopicExists")
    /\ call[1].name = NameA
    /\ call[2].name = NameA
    /\ result[1].err = NilErr
    /\ Len(got[2]) = 2
    /\ got[2][2].status = 409
    /\ result[2].err # NilErr
    /\ NameA \in srvTopics

=============================================================================
